---- MODULE Spec2Model ----
(***************************************************************************)
(* Cohort-component population projection (thewondrfulwizrd/WA1).          *)
(*                                                                         *)
(* The model follows src/src/utils/cohortComponentProjection.js (the year  *)
(* step projectOneYear, projectToYear and its cache, the standalone        *)
(* calculateGlobalMortalityRate), the fertility-rate module (src/unnamed/  *)
(* part_002), mortalityRates.js, migrationDistribution.js,                 *)
(* populationHelpers.js and scenarioCalculations.js.                       *)
(*                                                                         *)
(* Five specifications: Spec chains year steps from a base snapshot with   *)
(* the tables fixed; EngineSpec runs the loaders, projectToYear,           *)
(* clearProjectionCache and calculateGlobalMortalityRate against the       *)
(* module-level caches; GatewaySpec runs applyScenarios; FrameSpec runs    *)
(* the functions that are handed the stored data and watches that data;    *)
(* UISpec runs the PopulationPyramid component: its state, its effects,    *)
(* their continuations and the fetches of the loaders they await.          *)
(*                                                                         *)
(* Numbers.  The program computes with JavaScript numbers; the model       *)
(* computes with exact rationals held as integers over a stated scale:     *)
(*   - a population value is a numerator over the snapshot's denominator   *)
(*     `den` (a power of 5: every year step divides by COHORT_WIDTH);      *)
(*   - a mortality rate per 1000 is held in millionths (RateScale);        *)
(*   - a mortality proportion is held in units of 1/PropScale;             *)
(*   - an ASFR is held in units of 1/ASFRScale, an adjusted ASFR in units  *)
(*     of 1/AdjASFRScale;                                                  *)
(*   - a migration share is a pair <<numerator, denominator>>.             *)
(* Math.round is modelled as floor(x + 1/2), as ECMAScript defines it.     *)
(* Binary floating-point representation error is not modelled.             *)
(***************************************************************************)
EXTENDS Integers, Sequences, FiniteSets, TLC

\* The 21 five-year age bands, indexed as in the source (0 = 0-4, 20 = 100+).
Cohorts == 0..20

Sexes == {"male", "female"}

\* ------------------------------------------------------------------------
\* Exact arithmetic kernel
\* ------------------------------------------------------------------------

Abs(x) == IF x < 0 THEN -x ELSE x

RECURSIVE GCD(_, _)
GCD(a, b) == IF b = 0 THEN a ELSE GCD(b, a % b)

\* The function f itself, with its values computed once (a function written
\* [x \in S |-> e] is otherwise re-evaluated at every application).
Tabulated(f) == CHOOSE g \in {f} : g = f

\* <<floor(a*b/d), (a*b) mod d>> for a, b >= 0 and d > 0, computed by binary
\* decomposition of b so that no intermediate value exceeds 2*d.
RECURSIVE MulDiv(_, _, _)
MulDiv(a, b, d) ==
  IF b = 0 \/ a = 0 THEN <<0, 0>>
  ELSE IF a < b THEN MulDiv(b, a, d)
  ELSE LET h  == MulDiv(a, b \div 2, d)
           r2 == 2 * h[2]
           q2 == 2 * h[1] + (r2 \div d)
           r3 == (r2 % d) + (IF b % 2 = 1 THEN a % d ELSE 0)
           q3 == q2 + (IF b % 2 = 1 THEN a \div d ELSE 0) + (r3 \div d)
       IN  <<q3, r3 % d>>

\* <<floor(a*b/d), (a*b) mod d>> for integers a, b of either sign, d > 0.
FloorMulDiv(a, b, d) ==
  LET md == MulDiv(Abs(a), Abs(b), d)
  IN  IF (a < 0) # (b < 0)
      THEN IF md[2] = 0 THEN <<-md[1], 0>> ELSE <<-md[1] - 1, d - md[2]>>
      ELSE md

\* Math.round((q + r/d) / n) for an integer q, 0 <= r < d and n > 0.
\* Math.round(x) = floor(x + 1/2): a tie is rounded towards +infinity.
MathRoundQuot(q, r, d, n) ==
  (q \div n) + (IF 2 * (q % n) + ((2 * r) \div d) >= n THEN 1 ELSE 0)

\* Math.round(a * b / (d * n)) for integers a, b of either sign, d, n > 0.
MathRound(a, b, d, n) ==
  LET md == FloorMulDiv(a, b, d)
  IN  MathRoundQuot(md[1], md[2], d, n)

\* ------------------------------------------------------------------------
\* Scales of the fixed-point representation
\* ------------------------------------------------------------------------

RateScale == 1000000          \* a rate per 1000 is rate / RateScale
PropScale == RateScale * 1000  \* a proportion is p / PropScale (rate / 1000)
ASFRScale == 100000           \* an ASFR is a / ASFRScale
AdjASFRScale == ASFRScale * 100  \* an adjusted ASFR is a / AdjASFRScale

\* ------------------------------------------------------------------------
\* Rate tables
\* ------------------------------------------------------------------------

\* mortalityRates.js, const MORTALITY_RATES (per 1000, in millionths).
MORTALITY_RATES ==
  [ female |-> [c \in Cohorts |->
      CASE c = 0 -> 1000000   [] c = 1 -> 100000    [] c = 2 -> 100000
        [] c = 3 -> 300000    [] c = 4 -> 450000    [] c = 5 -> 550000
        [] c = 6 -> 700000    [] c = 7 -> 850000    [] c = 8 -> 1100000
        [] c = 9 -> 1600000   [] c = 10 -> 2300000  [] c = 11 -> 3650000
        [] c = 12 -> 5750000  [] c = 13 -> 9000000  [] c = 14 -> 14200000
        [] c = 15 -> 24250000 [] c = 16 -> 42900000 [] c = 17 -> 80200000
        [] c = 18 -> 143639368 [] c = 19 -> 241758242 [] c = 20 -> 351543309],
    male |-> [c \in Cohorts |->
      CASE c = 0 -> 1050000   [] c = 1 -> 100000    [] c = 2 -> 100000
        [] c = 3 -> 500000    [] c = 4 -> 750000    [] c = 5 -> 1100000
        [] c = 6 -> 1400000   [] c = 7 -> 1700000   [] c = 8 -> 2100000
        [] c = 9 -> 2650000   [] c = 10 -> 4000000  [] c = 11 -> 6150000
        [] c = 12 -> 9200000  [] c = 13 -> 14050000 [] c = 14 -> 21700000
        [] c = 15 -> 34800000 [] c = 16 -> 60400000 [] c = 17 -> 110750000
        [] c = 18 -> 185467822 [] c = 19 -> 278554094 [] c = 20 -> 401356994] ]

\* The default rate 8.0 per 1000 (`|| 8.0`, `fill(8.0)`).
DefaultRate == 8 * RateScale

\* getMortalityRates before a load has succeeded: 8.0 for all ages.
DefaultRates ==
  [ male |-> [c \in Cohorts |-> DefaultRate],
    female |-> [c \in Cohorts |-> DefaultRate] ]

\* loadMortalityRates: both arrays start as new Array(21).fill(0) and every
\* matched row of the source data overwrites its cell; a cohort with no row
\* stays 0.  rows is a set of <<sex, cohort, rate>>, one per cell at most.
ParsedRates(rows) ==
  [ s \in Sexes |-> [c \in Cohorts |->
      IF \E r \in rows : r[1] = s /\ r[2] = c
      THEN (CHOOSE r \in rows : r[1] = s /\ r[2] = c)[3]
      ELSE 0] ]

\* A loaded table with rows for female 0-4 (1.0) and female 100+ (300.0) only.
SparseRates ==
  ParsedRates({ <<"female", 0, 1 * RateScale>>, <<"female", 20, 300 * RateScale>> })

\* The mortality tables a projection step can see.
RateTables == { MORTALITY_RATES, DefaultRates, SparseRates }

\* fertilityRates: getBaselineFertilityRates (hundred-thousandths).
BaselineFertilityRates ==
  [c \in Cohorts |->
     CASE c = 3 -> 301  [] c = 4 -> 1703 [] c = 5 -> 4742 [] c = 6 -> 6913
       [] c = 7 -> 4101 [] c = 8 -> 924  [] c = 9 -> 67
       [] OTHER -> 0]

\* applyFertilityAdjustment: asfr * (1 + fertilityAdjustment / 100), in units
\* of 1 / AdjASFRScale.
ApplyFertilityAdjustment(baselineASFRs, fertilityAdjustment) ==
  [c \in Cohorts |-> baselineASFRs[c] * (100 + fertilityAdjustment)]

RECURSIVE SumUpTo(_, _)
SumUpTo(f, n) == IF n < 0 THEN 0 ELSE f[n] + SumUpTo(f, n - 1)

\* Sum of a function over all cohorts.
SumCohorts(f) == SumUpTo(f, 20)

\* calculateTFRFromASFR: sum * 5 (in the units of its argument).
CalculateTFRFromASFR(asfrs) == SumCohorts(asfrs) * 5

\* getAdjustedFertilityRates.
GetAdjustedFertilityRates(fertilityAdjustment) ==
  LET adjusted == ApplyFertilityAdjustment(BaselineFertilityRates, fertilityAdjustment)
  IN  [ asfrs |-> adjusted, tfr |-> CalculateTFRFromASFR(adjusted) ]

\* ------------------------------------------------------------------------
\* Migration distribution
\* ------------------------------------------------------------------------

\* loadMigrationDistribution, from the net migration per cell (immigrants +
\* net non-permanent residents - emigration): share = v / grandTotal when
\* grandTotal > 0, else 0.
LoadedDistribution(maleNetMigration, femaleNetMigration) ==
  LET maleTotal   == SumCohorts(maleNetMigration)
      femaleTotal == SumCohorts(femaleNetMigration)
      grandTotal  == maleTotal + femaleTotal
      Share(v)    == IF grandTotal > 0 THEN <<v, grandTotal>> ELSE <<0, 1>>
  IN  [ male   |-> [c \in Cohorts |-> Share(maleNetMigration[c])],
        female |-> [c \in Cohorts |-> Share(femaleNetMigration[c])],
        maleTotal |-> maleTotal, femaleTotal |-> femaleTotal,
        grandTotal |-> grandTotal ]

\* getMigrationDistribution before a load has succeeded (and the value
\* loadMigrationDistribution returns when the load fails): uniform = 1 / 21
\* in every cell of both sexes.
UniformDistribution ==
  [ male   |-> [c \in Cohorts |-> <<1, 21>>],
    female |-> [c \in Cohorts |-> <<1, 21>>],
    maleTotal |-> 0, femaleTotal |-> 0, grandTotal |-> 0 ]

ZeroCells == [c \in Cohorts |-> 0]

\* f with the value v at cohort i.
With(f, i, v) == [f EXCEPT ![i] = v]

\* The migration distributions a projection step can see: the fallback, a
\* loaded one with a net outflow in one cell, one loaded from data with no
\* net migration at all (grandTotal = 0), and one loaded from data with the
\* same net migration in all 42 cells.
MigrationDistributions ==
  { UniformDistribution,
    LoadedDistribution(With(With(ZeroCells, 5, 2), 16, -1),
                       With(With(With(ZeroCells, 0, 1), 5, 3), 20, 0)),
    LoadedDistribution(ZeroCells, ZeroCells),
    LoadedDistribution([c \in Cohorts |-> 1], [c \in Cohorts |-> 1]) }

\* ------------------------------------------------------------------------
\* The year step
\* ------------------------------------------------------------------------

BASELINE_NET_MIGRATION == 400000

COHORT_WIDTH == 5

\* `rate || 8.0`: a zero (or missing) table entry is replaced by the default.
RateOrDefault(rate) == IF rate = 0 THEN DefaultRate ELSE rate

\* 1 + scenarios.mortality / 100 (the model's mortality percentages are
\* multiples of 100, so the multiplier is a whole number).
MortalityMultiplier(mortalityPct) == (100 + mortalityPct) \div 100

\* Variant: the scenario multiplier is not applied to the rate.
MortalityPropUnscaled(ratePer1000, multiplier) ==
  IF ratePer1000 <= 0 THEN 0
  ELSE IF ratePer1000 >= PropScale THEN PropScale ELSE ratePer1000

\* Math.max(0, Math.min(1, (ratePer1000 * multiplier) / 1000)), in units of
\* 1 / PropScale.
MortalityProp(ratePer1000, multiplier) ==
  IF ratePer1000 = 0 \/ multiplier = 0 \/ ((ratePer1000 < 0) # (multiplier < 0))
  THEN 0
  ELSE IF MulDiv(Abs(ratePer1000), Abs(multiplier), PropScale)[1] >= 1
       THEN PropScale
       ELSE Abs(ratePer1000) * Abs(multiplier)

\* Math.round(pop * mortalityProp) for the population popNum / den.
Deaths(popNum, den, prop) == MathRound(popNum, prop, PropScale, den)

\* Variant: off by one, the women of group i + 1 are read for group i.
RECURSIVE BirthsFromGroupsShifted(_, _, _)
BirthsFromGroupsShifted(femalePopulation, asfrs, from) ==
  IF from > 9 THEN <<0, 0>>
  ELSE LET rest == BirthsFromGroupsShifted(femalePopulation, asfrs, from + 1)
           t    == FloorMulDiv(femalePopulation[from + 1], asfrs[from], AdjASFRScale)
           r    == rest[2] + t[2]
       IN  <<rest[1] + t[1] + (r \div AdjASFRScale), r % AdjASFRScale>>

\* calculateBirthsFromASFR: the running sum of womenInGroup * asfrs[i] for
\* i = from..9, as <<whole part, remainder over AdjASFRScale>> (numerators
\* over den).
RECURSIVE BirthsFromGroups(_, _, _)
BirthsFromGroups(femalePopulation, asfrs, from) ==
  IF from > 9 THEN <<0, 0>>
  ELSE LET rest == BirthsFromGroups(femalePopulation, asfrs, from + 1)
           t    == FloorMulDiv(femalePopulation[from], asfrs[from], AdjASFRScale)
           r    == rest[2] + t[2]
       IN  <<rest[1] + t[1] + (r \div AdjASFRScale), r % AdjASFRScale>>

\* Variant: Math.floor in place of Math.round.
CalculateBirthsFloor(femalePopulation, den, asfrs) ==
  BirthsFromGroups(femalePopulation, asfrs, 3)[1] \div den

\* calculateBirthsFromASFR(femalePopulation, asfrs): Math.round of the sum
\* over the reproductive groups 3..9.
CalculateBirthsFromASFR(femalePopulation, den, asfrs) ==
  LET total == BirthsFromGroups(femalePopulation, asfrs, 3)
  IN  MathRoundQuot(total[1], total[2], AdjASFRScale, den)

\* Math.round(births * share% * (1 - infantMortality)).
InfantSurvivors(births, sharePct, infantMortality) ==
  MathRound(births * sharePct, PropScale - infantMortality, PropScale, 100)

\* q + n/d in lowest terms, for the rational totalDeaths / totalPopulation * 1000.
Ratio(whole, n, d) ==
  LET g == GCD(n, d) IN [ whole |-> whole, num |-> n \div g, den |-> d \div g ]

\* Variant: the ratio is not multiplied by 1000.
GlobalMortalityRatePerCapita(totalDeaths, totalPopulationNum, den) ==
  IF totalPopulationNum > 0
  THEN LET md == MulDiv(totalDeaths, den, totalPopulationNum)
       IN  Ratio(md[1], md[2], totalPopulationNum)
  ELSE Ratio(0, 0, 1)

\* totalPopulation > 0 ? (totalDeaths / totalPopulation) * 1000 : 0
GlobalMortalityRate(totalDeaths, totalPopulationNum, den) ==
  IF totalPopulationNum > 0
  THEN LET md == MulDiv(totalDeaths, 1000 * den, totalPopulationNum)
       IN  Ratio(md[1], md[2], totalPopulationNum)
  ELSE Ratio(0, 0, 1)

\* Math.max(0, Math.min(1, (base * multiplier) / 1000)) as
\* calculateGlobalMortalityRate computes it, in units of 1 / PropScale: the
\* product is compared with 1000 per 1000 before it is formed.
AdjustedMortalityProp(basePer1000, multiplier) ==
  IF basePer1000 <= 0 /\ multiplier >= 0 THEN 0
  ELSE IF basePer1000 >= 0 /\ multiplier <= 0 THEN 0
  ELSE IF Abs(basePer1000) >= (PropScale + Abs(multiplier) - 1) \div Abs(multiplier)
       THEN PropScale
       ELSE basePer1000 * multiplier

\* The loop of calculateGlobalMortalityRate over the cohorts i..20:
\* totalDeaths (a whole number) and totalPopulation (a numerator over den).
RECURSIVE MortalityTotals(_, _, _, _)
MortalityTotals(population, rates, mortalityMultiplier, i) ==
  IF i > 20 THEN [ totalDeaths |-> 0, totalPopulation |-> 0 ]
  ELSE LET rest == MortalityTotals(population, rates, mortalityMultiplier, i + 1)
           baseMale   == IF rates.male[i] = 0 THEN DefaultRate ELSE rates.male[i]
           baseFemale == IF rates.female[i] = 0 THEN DefaultRate ELSE rates.female[i]
           maleProp   == AdjustedMortalityProp(baseMale, mortalityMultiplier)
           femaleProp == AdjustedMortalityProp(baseFemale, mortalityMultiplier)
       IN  [ totalDeaths |-> rest.totalDeaths
               + MathRound(population.male[i], maleProp, PropScale, population.den)
               + MathRound(population.female[i], femaleProp, PropScale, population.den),
             totalPopulation |-> rest.totalPopulation
               + population.male[i] + population.female[i] ]

\* calculateGlobalMortalityRate(population, scenarios) with the table
\* getMortalityRates() hands it.
CalculateGlobalMortalityRate(population, scenarios, rates) ==
  LET mortalityMultiplier == (100 + scenarios.mortality) \div 100
      t == MortalityTotals(population, rates, mortalityMultiplier, 0)
  IN  IF t.totalPopulation > 0
      THEN LET md == MulDiv(1000 * population.den, t.totalDeaths, t.totalPopulation)
           IN  Ratio(md[1], md[2], t.totalPopulation)
      ELSE Ratio(0, 0, 1)

\* Variant: the entire younger cohort ages at once (no 1/5 sliding window).
AgeCohortFullShift(survivors, i) == COHORT_WIDTH * survivors[i - 1]

\* Aging of groups 1..19: inflow = survivors[i - 1] / COHORT_WIDTH and
\* staying = survivors[i] * (COHORT_WIDTH - 1) / COHORT_WIDTH; the result is
\* a numerator over den * COHORT_WIDTH (survivors are numerators over den).
AgeCohort(survivors, i) ==
  survivors[i - 1] + survivors[i] * (COHORT_WIDTH - 1)

\* Variant: the terminal group loses 1/5 by aging like every other group.
AgeTerminalWithOutflow(survivors) ==
  survivors[19] + (COHORT_WIDTH - 1) * survivors[20]

\* Aging of group 20 (100+): survivors[19] / COHORT_WIDTH + survivors[20].
AgeTerminal(survivors) ==
  survivors[19] + COHORT_WIDTH * survivors[20]

\* Variant: group 0-4 holds the surviving infants only.
AgeGroup0BirthsOnly(survivors, infantSurvivors, den5) == den5 * infantSurvivors

\* Group 0-4: survivors[0] * (COHORT_WIDTH - 1) / COHORT_WIDTH plus the
\* surviving infants (a whole number; den5 = den * COHORT_WIDTH).
AgeGroup0(survivors, infantSurvivors, den5) ==
  survivors[0] * (COHORT_WIDTH - 1) + den5 * infantSurvivors

\* The infant mortality proportion of one sex:
\* Math.max(0, Math.min(1, (baseRates[0] * mortalityMultiplier) / 1000)).
InfantMortality(baseRates, mortalityMultiplier) ==
  MortalityProp(baseRates[0], mortalityMultiplier)

\* Variant: the floor at zero left out.
MaxZeroMissing(v) == v

\* Math.max(0, v)
MaxZero(v) == IF v > 0 THEN v ELSE 0

\* Variant: Math.floor in place of Math.round.
MigrantsFloor(adjustedNetMigration, share) ==
  FloorMulDiv(adjustedNetMigration, share[1], share[2])[1]

\* Math.round(adjustedNetMigration * share) for the share share[1] / share[2].
Migrants(adjustedNetMigration, share) ==
  MathRound(adjustedNetMigration, share[1], share[2], 1)

\* projectOneYear(currentPopulation, scenarios, data) with the rate tables
\* the loaders hand it.  currentPopulation = [male, female, den]: numerators
\* over den.  The result's populations are numerators over den * COHORT_WIDTH;
\* deaths, births and migrants are whole numbers; survivors are numerators
\* over den; projected (before migration) over den * COHORT_WIDTH.
ProjectOneYear(currentPopulation, scenarios, mortalityRates, migrationDist) ==
  LET den  == currentPopulation.den
      den5 == den * COHORT_WIDTH
      fertilityRates == GetAdjustedFertilityRates(scenarios.fertility)
      adjustedASFRs  == fertilityRates.asfrs
      mortalityMultiplier == MortalityMultiplier(scenarios.mortality)
      \* Math.round(BASELINE_NET_MIGRATION * (1 + scenarios.migration / 100))
      adjustedNetMigration ==
        MathRound(BASELINE_NET_MIGRATION, 100 + scenarios.migration, 100, 1)
      \* STEP 1: deaths
      mortalityProp == Tabulated([s \in Sexes |-> [i \in Cohorts |->
        MortalityProp(RateOrDefault(mortalityRates[s][i]), mortalityMultiplier)]])
      deathsByAgeGender == Tabulated([s \in Sexes |-> [i \in Cohorts |->
        Deaths(currentPopulation[s][i], den, mortalityProp[s][i])]])
      totalDeaths == SumCohorts(deathsByAgeGender["male"])
                     + SumCohorts(deathsByAgeGender["female"])
      totalPopulation == SumCohorts(currentPopulation.male)
                         + SumCohorts(currentPopulation.female)
      \* STEP 2: survivors
      survivors == Tabulated([s \in Sexes |-> [i \in Cohorts |->
        currentPopulation[s][i] - den * deathsByAgeGender[s][i]]])
      \* STEP 4: births and infant survival
      births == CalculateBirthsFromASFR(currentPopulation.female, den, adjustedASFRs)
      infantMortality == Tabulated([s \in Sexes |->
        InfantMortality(mortalityRates[s], mortalityMultiplier)])
      maleInfantSurvivors   == InfantSurvivors(births, 49, infantMortality["male"])
      femaleInfantSurvivors == InfantSurvivors(births, 51, infantMortality["female"])
      infantSurvivors == Tabulated([s \in Sexes |->
        IF s = "male" THEN maleInfantSurvivors ELSE femaleInfantSurvivors])
      \* STEP 3 and STEP 5: aging, and the 0-4 group
      projected == Tabulated([s \in Sexes |-> [i \in Cohorts |->
        IF i = 0 THEN AgeGroup0(survivors[s], infantSurvivors[s], den5)
        ELSE IF i < 20 THEN AgeCohort(survivors[s], i)
        ELSE AgeTerminal(survivors[s])]])
      \* STEP 6: migration
      migration == Tabulated([s \in Sexes |-> [i \in Cohorts |->
        Migrants(adjustedNetMigration, migrationDist[s][i])]])
      final == Tabulated([s \in Sexes |-> [i \in Cohorts |->
        MaxZero(projected[s][i] + den5 * migration[s][i])]])
  IN  [ male |-> final["male"], female |-> final["female"], den |-> den5,
        mortalityProp |-> mortalityProp,
        infantMortality |-> infantMortality,
        deathsByAgeGender |-> deathsByAgeGender,
        survivors |-> survivors,
        projected |-> projected,
        migration |-> migration,
        totalPopulation |-> totalPopulation,
        components |->
          [ births |-> births,
            maleInfantSurvivors |-> maleInfantSurvivors,
            femaleInfantSurvivors |-> femaleInfantSurvivors,
            deaths |-> totalDeaths,
            adjustedTFR |-> fertilityRates.tfr,
            adjustedNetMigration |-> adjustedNetMigration,
            adjustedMortalityMultiplier |-> mortalityMultiplier,
            globalMortalityRate |->
              GlobalMortalityRate(totalDeaths, totalPopulation, den) ] ]

\* ------------------------------------------------------------------------
\* Loaders, stored data, the scenario gateway
\* ------------------------------------------------------------------------

\* JavaScript's null and undefined.
Null == [ absent |-> "null" ]
Undefined == [ absent |-> "undefined" ]

\* !v for a value that is an object, null or undefined.
IsAbsent(v) == "absent" \in DOMAIN v

\* loadMortalityRates(): the cached table when there is one; otherwise the
\* fetched table, which is cached, when the fetch succeeds, and the 8.0
\* defaults, which are not cached, when it fails.
LoadMortalityRates(cached, fetched, ok) ==
  IF ~IsAbsent(cached) THEN [ cache |-> cached, value |-> cached ]
  ELSE IF ok THEN [ cache |-> fetched, value |-> fetched ]
  ELSE [ cache |-> cached, value |-> DefaultRates ]

\* getMortalityRates()
GetMortalityRates(cached) == IF IsAbsent(cached) THEN DefaultRates ELSE cached

\* loadMigrationDistribution(): as loadMortalityRates, with the uniform
\* distribution as the uncached fallback.
LoadMigrationDistribution(cached, fetched, ok) ==
  IF ~IsAbsent(cached) THEN [ cache |-> cached, value |-> cached ]
  ELSE IF ok THEN [ cache |-> fetched, value |-> fetched ]
  ELSE [ cache |-> cached, value |-> UniformDistribution ]

\* getMigrationDistribution()
GetMigrationDistribution(cached) ==
  IF IsAbsent(cached) THEN UniformDistribution ELSE cached

\* getPopulationByYear(data, year); a year without a stored snapshot reads
\* as undefined.
GetPopulationByYear(data, year) ==
  IF IsAbsent(data) THEN Null
  ELSE IF year <= data.lastObservedYear
       THEN IF year \in DOMAIN data.observed THEN data.observed[year] ELSE Undefined
  ELSE IF year <= data.lastProjectedYear
       THEN IF year \in DOMAIN data.projected THEN data.projected[year] ELSE Undefined
  ELSE Null

\* Variant: the last observed year is classified as projected.
GetYearTypeExclusive(data, year) ==
  IF year < data.lastObservedYear THEN "observed" ELSE "projected"

\* getYearType(data, year)
GetYearType(data, year) ==
  IF year <= data.lastObservedYear THEN "observed" ELSE "projected"

\* The multiplier, in percent, applyScenarios applies to age index ageIndex:
\* fertility on 0, the inverted mortality on 13 and above, migration on 4..12.
ScenarioPercent(scenarios, ageIndex) ==
  IF ageIndex = 0 THEN 100 + scenarios.fertility
  ELSE IF ageIndex >= 13 THEN 100 - scenarios.mortality
  ELSE IF ageIndex >= 4 /\ ageIndex <= 12 THEN 100 + scenarios.migration
  ELSE 100

\* applyScenarios(data, scenarios, year)
ApplyScenarios(data, scenarios, year) ==
  IF GetYearType(data, year) = "observed" THEN GetPopulationByYear(data, year)
  ELSE LET baseline == GetPopulationByYear(data, year)
           Adjusted(pops) == [ageIndex \in Cohorts |->
             MaxZero(MathRound(pops[ageIndex], ScenarioPercent(scenarios, ageIndex),
                               100, baseline.den))]
       IN  IF IsAbsent(baseline) THEN [ male |-> <<>>, female |-> <<>>, den |-> 1 ]
           ELSE [ male |-> Adjusted(baseline.male),
                  female |-> Adjusted(baseline.female), den |-> 1 ]

\* The object projectOneYear returns: male, female and _components.
Returned(r) ==
  [ male |-> r.male, female |-> r.female, den |-> r.den, components |-> r.components ]

\* The male and female arrays of a snapshot.
Arrays(pop) == [ male |-> pop.male, female |-> pop.female, den |-> pop.den ]

\* Variant: the survivors are computed in place, in the arrays of the
\* snapshot the call was given.
CurrentPopulationInPlace(currentPopulation, r) ==
  [ male |-> r.survivors["male"], female |-> r.survivors["female"],
    den |-> currentPopulation.den ]

\* The object currentPopulation after projectOneYear has returned r: the call
\* reads currentPopulation.male[i] and currentPopulation.female[i] and
\* assigns only to arrays it has created itself (deathsByAgeGender,
\* survivors, projectedMale/Female, the mapped migration and final arrays).
CurrentPopulationAfter(currentPopulation, r) == currentPopulation

\* The dataset `data` with the object stored for `year` holding pop.
WithStoredSnapshot(data, year, pop) ==
  IF year <= data.lastObservedYear
  THEN [data EXCEPT !.observed = [@ EXCEPT ![year] = pop]]
  ELSE [data EXCEPT !.projected = [@ EXCEPT ![year] = pop]]

\* The projection cache key `${targetYear}_${JSON.stringify(scenarios)}`.
CacheKey(targetYear, scenarios) == <<targetYear, scenarios>>

\* Variant: the loop stops one year short of the target.
LoopContinuesExclusive(loopYear, targetYear) == loopYear < targetYear

\* The loop condition of projectToYear: year <= targetYear.
LoopContinues(loopYear, targetYear) == loopYear <= targetYear

\* Variant: the baseline is computed with the user's current scenario.
BaselineArgumentsAdjusted(selectedYear, scenarios) ==
  [ year |-> selectedYear, scenarios |-> scenarios ]

\* What computeBaselineMortality passes to applyScenarios and to
\* calculateGlobalMortalityRate: the selected year and the literal scenario
\* { fertility: 0, mortality: 0, migration: 0 }, whatever the component's
\* scenarios state holds.
BaselineArguments(selectedYear, scenarios) ==
  [ year |-> selectedYear,
    scenarios |-> [ fertility |-> 0, mortality |-> 0, migration |-> 0 ] ]

\* A loader called by a function that awaits it, up to the loader's own
\* first await.  With a cached table the caller's continuation `then` is
\* queued; otherwise the loader starts a fetch of its source file and the
\* caller waits for it.  st = [microtasks, inflight, fetched].
StartLoad(st, table, cached, then) ==
  IF ~IsAbsent(cached)
  THEN [st EXCEPT !.microtasks = Append(@, then)]
  ELSE [st EXCEPT
          !.inflight = @ \cup { [ id |-> st.fetched.mortality + st.fetched.migration + 1,
                                  table |-> table, then |-> then ] },
          !.fetched = [@ EXCEPT ![table] = @ + 1]]

\* ------------------------------------------------------------------------
\* Inputs and bounds
\* ------------------------------------------------------------------------

\* Number of consecutive year steps explored from a base snapshot.
MaxYears == 2

\* Scenario percentages explored (mortality: multiples of 100 only).
FertilityPcts == {-200, 0, 100}
MortalityPcts == {-200, -100, 0, 100, 100000}
MigrationPcts == {-200, -100, 0, 300}

Scenarios ==
  [ fertility : FertilityPcts, mortality : MortalityPcts, migration : MigrationPcts ]

NeutralScenario == [ fertility |-> 0, mortality |-> 0, migration |-> 0 ]

\* A snapshot of whole numbers.
Snapshot(male, female) == [ male |-> male, female |-> female, den |-> 1 ]

\* Base-year snapshots (all entries >= 0).
BaseSnapshots ==
  { \* all population in band 0
    Snapshot(With(ZeroCells, 0, 1000), With(ZeroCells, 0, 1000)),
    \* only the terminal band populated
    Snapshot(ZeroCells, With(ZeroCells, 20, 100)),
    Snapshot(With(ZeroCells, 20, 1), With(ZeroCells, 20, 1)),
    \* 900 in band 0 and 100 in band 20
    Snapshot(ZeroCells, With(With(ZeroCells, 0, 900), 20, 100)),
    \* women of reproductive age, men, and old people
    Snapshot(With(With(ZeroCells, 5, 700), 19, 9),
             With(With(With(With(ZeroCells, 3, 10), 5, 1000), 7, 20), 9, 50)),
    \* women outside the reproductive bands only
    Snapshot(With(ZeroCells, 6, 400),
             With(With(With(ZeroCells, 2, 500), 10, 500), 19, 4)),
    \* nobody
    Snapshot(ZeroCells, ZeroCells) }

\* Bound on the number of projectToYear and calculateGlobalMortalityRate
\* calls in a run of the engine.
MaxCalls == 2

\* What the migration source file yields in the engine's runs.
SourceDistribution ==
  LoadedDistribution(With(With(ZeroCells, 5, 2), 16, -1),
                     With(With(ZeroCells, 0, 1), 5, 3))

\* Two datasets, by name.  The first has observed years 2024 and 2025 and the
\* projected year 2026; the second has the observed year 2024, the projected
\* year 2025 and no stored snapshot for its last projected year 2026.
Datasets ==
  [ first |->
    [ lastObservedYear |-> 2025, lastProjectedYear |-> 2026,
      observed |->
        (2024 :> Snapshot(With(With(ZeroCells, 5, 700), 19, 9),
                          With(With(ZeroCells, 3, 10), 5, 1000))
         @@ 2025 :> Snapshot(With(ZeroCells, 0, 1000),
                             With(With(ZeroCells, 0, 1000), 14, 50))),
      projected |->
        (2026 :> Snapshot(With(With(ZeroCells, 0, 1200), 5, 300),
                          With(With(ZeroCells, 0, 1100), 14, 60))) ],
    second |->
    [ lastObservedYear |-> 2024, lastProjectedYear |-> 2026,
      observed |->
        (2024 :> Snapshot(With(ZeroCells, 20, 1), With(ZeroCells, 20, 100))),
      projected |->
        (2025 :> Snapshot(With(ZeroCells, 6, 400),
                          With(With(ZeroCells, 2, 500), 5, 40))) ] ]

DatasetNames == DOMAIN Datasets

\* The dataset the engine's projectToYear calls are given.
EngineDatasets == {"first"}

\* Arguments of the engine's calls.
EngineScenarios ==
  { NeutralScenario, [ fertility |-> 100, mortality |-> 100, migration |-> -100 ] }
BaseYears == {2023, 2024, 2025}
\* The snapshots the engine's calculateGlobalMortalityRate calls are given.
RatePopulations == { Datasets[d].observed[2025] : d \in EngineDatasets }
TargetYears == {2024, 2024 + MaxYears}
GatewayYears == {2024, 2025, 2026}

\* Bound on the number of user events (year selections, scenario changes,
\* debug-table toggles) in a run of the component.
MaxEvents == 3

\* The dataset the component's data hook resolves to, the years the slider
\* selects and the settings of the scenario controls.
UIDataset == "first"
UIYears == {2025, 2026}
UIScenarios == EngineScenarios

\* ------------------------------------------------------------------------
\* State
\* ------------------------------------------------------------------------

VARIABLES
  mortalityRates,   \* the table getMortalityRates() returns
  migrationDist,    \* the distribution getMigrationDistribution() returns
  population,       \* the snapshot threaded through the year steps
  year,             \* number of year steps taken from the base snapshot
  input,            \* currentPopulation of the last projectOneYear call
  scenarios,        \* scenarios of the last projectOneYear call
  last,             \* what the last projectOneYear call computed
  source,           \* what the two source data files yield when fetched
  cachedMortalityRates,         \* mortalityRates.js, cachedMortalityRates
  cachedMigrationDistribution,  \* migrationDistribution.js, cachedMigrationDistribution
  projectionCache,  \* cohortComponentProjection.js, projectionCache
  cacheOrigin,      \* history: the dataset and baseYear each cache entry was computed
                    \* from, and whether the cache was cleared while it was computed
  pending,          \* the projectToYear call suspended at an await, if any
  ret,              \* the last value an engine call returned, with its arguments
                    \* and, as history, how it came about
  first,            \* history: the first projectOneYear call made
  calls,            \* number of projectToYear and calculateGlobalMortalityRate calls made
  storedData,       \* the datasets' stored snapshots (the `data` objects), by name
  pyramid,          \* PopulationPyramid's state: data, selectedYear, scenarios,
                    \* population, baselineMortality, showDebugTable
  microtasks,       \* continuations of the component's async functions, ready to run
  inflight,         \* fetches of the source files awaiting their response
  fetched,          \* history: number of fetches started for each source file
  baselines,        \* history: every setBaselineMortality call, with the year it was
                    \* computed for, the table used and the user's settings then
  events            \* number of user events handled

stepVars == <<mortalityRates, migrationDist, population, year, input, scenarios, last>>

engineVars == <<source, cachedMortalityRates, cachedMigrationDistribution,
                projectionCache, cacheOrigin, pending, ret, first, calls>>

uiVars == <<pyramid, microtasks, inflight, fetched, baselines, events>>

vars == <<stepVars, engineVars, storedData, uiVars>>

\* PopulationPyramid before its data hook has resolved: useState's initial
\* values, nothing scheduled, nothing fetched.
UIInit ==
  /\ pyramid = [ data |-> Null, selectedYear |-> 2025, scenarios |-> NeutralScenario,
                 population |-> [ male |-> <<>>, female |-> <<>>, den |-> 1 ],
                 baselineMortality |-> [ whole |-> 7, num |-> 1, den |-> 2 ],
                 showDebugTable |-> FALSE ]
  /\ microtasks = <<>>
  /\ inflight = {}
  /\ fetched = [ mortality |-> 0, migration |-> 0 ]
  /\ baselines = <<>>
  /\ events = 0

Init ==
  /\ mortalityRates \in RateTables
  /\ migrationDist \in MigrationDistributions
  /\ population \in BaseSnapshots
  /\ year = 0
  /\ input = population
  /\ scenarios = NeutralScenario
  /\ last = [ called |-> FALSE ]
  /\ source = [ mortality |-> IF mortalityRates = DefaultRates
                                THEN MORTALITY_RATES ELSE mortalityRates,
                 migration |-> IF migrationDist = UniformDistribution
                                THEN SourceDistribution ELSE migrationDist ]
  /\ cachedMortalityRates =
       (IF mortalityRates = DefaultRates THEN Null ELSE mortalityRates)
  /\ cachedMigrationDistribution =
       (IF migrationDist = UniformDistribution THEN Null ELSE migrationDist)
  /\ projectionCache = <<>>
  /\ cacheOrigin = <<>>
  /\ pending = [ active |-> FALSE ]
  /\ ret = [ op |-> "none" ]
  /\ first = [ called |-> FALSE ]
  /\ calls = 0
  /\ storedData = Datasets
  /\ UIInit

\* One iteration of projectToYear's loop,
\*   currentPop = await projectOneYear(currentPop, scenarios, data):
\* the scenario is an argument of the run, the same in every year step.  The
\* caller then asks calculateGlobalMortalityRate for the rate of the same
\* snapshot and scenario.
ProjectStep ==
  /\ year < MaxYears
  /\ \E sc \in (IF year = 0 THEN Scenarios ELSE {scenarios}) :
       LET r == ProjectOneYear(population, sc, mortalityRates, migrationDist)
       IN  /\ last' = [ called |-> TRUE, result |-> r,
                        rate |-> CalculateGlobalMortalityRate(population, sc,
                                                              mortalityRates) ]
           /\ population' = [ male |-> r.male, female |-> r.female, den |-> r.den ]
           /\ input' = population
           /\ scenarios' = sc
  /\ year' = year + 1
  /\ UNCHANGED <<mortalityRates, migrationDist>>
  /\ UNCHANGED <<engineVars, storedData, uiVars>>

Next == ProjectStep

Spec == Init /\ [][Next]_vars

\* ------------------------------------------------------------------------
\* The engine: loaders, projectToYear with its cache, the scenario gateway
\* ------------------------------------------------------------------------

\* The function f with the value v at k.
Put(f, k, v) == [x \in DOMAIN f \cup {k} |-> IF x = k THEN v ELSE f[x]]

EngineInit ==
  /\ source = [ mortality |-> MORTALITY_RATES, migration |-> SourceDistribution ]
  /\ cachedMortalityRates = Null
  /\ cachedMigrationDistribution = Null
  /\ mortalityRates = DefaultRates
  /\ migrationDist = UniformDistribution
  /\ population = Snapshot(ZeroCells, ZeroCells)
  /\ year = 0
  /\ input = population
  /\ scenarios = NeutralScenario
  /\ last = [ called |-> FALSE ]
  /\ projectionCache = <<>>
  /\ cacheOrigin = <<>>
  /\ pending = [ active |-> FALSE ]
  /\ ret = [ op |-> "none" ]
  /\ first = [ called |-> FALSE ]
  /\ calls = 0
  /\ storedData = Datasets
  /\ UIInit

\* loadMortalityRates() called on its own; the fetch succeeds or fails.
CallLoadMortalityRates(ok) ==
  /\ cachedMortalityRates' =
       LoadMortalityRates(cachedMortalityRates, source.mortality, ok).cache
  /\ UNCHANGED <<stepVars, source, cachedMigrationDistribution, projectionCache,
                 cacheOrigin, pending, ret, first, calls>>
  /\ UNCHANGED <<storedData, uiVars>>

\* loadMigrationDistribution() called on its own.
CallLoadMigrationDistribution(ok) ==
  /\ cachedMigrationDistribution' =
       LoadMigrationDistribution(cachedMigrationDistribution, source.migration, ok).cache
  /\ UNCHANGED <<stepVars, source, cachedMortalityRates, projectionCache,
                 cacheOrigin, pending, ret, first, calls>>
  /\ UNCHANGED <<storedData, uiVars>>

\* projectionCache = {}
ClearedCache(cache) == <<>>

\* clearProjectionCache(); a projectToYear call suspended at an await notes
\* (as history) that the cache was cleared under it.
CallClearProjectionCache ==
  /\ projectionCache' = ClearedCache(projectionCache)
  /\ cacheOrigin' = [k \in DOMAIN projectionCache' |-> cacheOrigin[k]]
  /\ pending' = IF pending.active THEN [pending EXCEPT !.cleared = TRUE] ELSE pending
  /\ UNCHANGED <<stepVars, source, cachedMortalityRates, cachedMigrationDistribution,
                 ret, first, calls>>
  /\ UNCHANGED <<storedData, uiVars>>

\* projectToYear(data, scenarios, targetYear, baseYear) up to its first
\* await: the cache lookup, the base-year lookup and, when the loop has no
\* iteration to run, the cache write and the return.
CallProjectToYear(dataset, sc, targetYear, baseYear) ==
  /\ ~pending.active
  /\ calls < MaxCalls
  /\ calls' = calls + 1
  /\ LET data       == storedData[dataset]
         cacheKey   == CacheKey(targetYear, sc)
         currentPop == GetPopulationByYear(data, baseYear)
         call == [ op |-> "projectToYear", seq |-> calls + 1, data |-> dataset,
                   scenarios |-> sc, targetYear |-> targetYear,
                   baseYear |-> baseYear,
                   emptyCache |-> (DOMAIN projectionCache = {}) ]
         origin == [ data |-> dataset, baseYear |-> baseYear ]
     IN  IF cacheKey \in DOMAIN projectionCache
         THEN /\ ret' = call @@ [ hit |-> TRUE, wrote |-> FALSE,
                                  value |-> projectionCache[cacheKey],
                                  origin |-> cacheOrigin[cacheKey].origin,
                                  beforeClear |-> cacheOrigin[cacheKey].cleared,
                                  steps |-> <<>> ]
              /\ UNCHANGED <<projectionCache, cacheOrigin, pending, population, year>>
         ELSE IF IsAbsent(currentPop)
         THEN /\ ret' = call @@ [ hit |-> FALSE, wrote |-> FALSE, value |-> Null,
                                  origin |-> origin, beforeClear |-> FALSE,
                                  steps |-> <<>> ]
              /\ UNCHANGED <<projectionCache, cacheOrigin, pending, population, year>>
         ELSE IF ~LoopContinues(baseYear + 1, targetYear)
         THEN /\ projectionCache' = Put(projectionCache, cacheKey, currentPop)
              /\ cacheOrigin' = Put(cacheOrigin, cacheKey,
                                    [ origin |-> origin, cleared |-> FALSE ])
              /\ ret' = call @@ [ hit |-> FALSE, wrote |-> TRUE, value |-> currentPop,
                                  origin |-> origin, beforeClear |-> FALSE,
                                  steps |-> <<>> ]
              /\ population' = currentPop
              /\ year' = 0
              /\ UNCHANGED pending
         ELSE /\ pending' = call @@ [ active |-> TRUE, loopYear |-> baseYear + 1,
                                      cleared |-> FALSE, steps |-> <<>> ]
              /\ population' = currentPop
              /\ year' = 0
              /\ UNCHANGED <<projectionCache, cacheOrigin, ret>>
  /\ UNCHANGED <<mortalityRates, migrationDist, input, scenarios, last, source,
                 cachedMortalityRates, cachedMigrationDistribution, first>>
  /\ UNCHANGED <<storedData, uiVars>>

\* One iteration of the suspended projectToYear call's loop: projectOneYear
\* awaits the two loaders (each fetch succeeds or fails), reads the tables
\* through the getters and computes the year step; after the last iteration
\* the result is stored in the cache and returned.
ResumeProjectToYear(okMortality, okMigration) ==
  /\ pending.active
  /\ LET lm == LoadMortalityRates(cachedMortalityRates, source.mortality, okMortality)
         lg == LoadMigrationDistribution(cachedMigrationDistribution,
                                         source.migration, okMigration)
         rates == GetMortalityRates(lm.cache)
         dist  == GetMigrationDistribution(lg.cache)
         steps == Append(pending.steps,
                         [ ratesLoaded |-> ~IsAbsent(lm.cache),
                           distLoaded |-> ~IsAbsent(lg.cache) ])
         cacheKey == CacheKey(pending.targetYear, pending.scenarios)
         origin == [ data |-> pending.data, baseYear |-> pending.baseYear ]
     IN  \* the one call of projectOneYear of this iteration, and its result r
         \E r \in { ProjectOneYear(population, pending.scenarios, rates, dist) } :
         \E currentPop \in { Returned(r) } :
         \E inputAfter \in { CurrentPopulationAfter(Arrays(population), r) } :
         /\ cachedMortalityRates' = lm.cache
         /\ cachedMigrationDistribution' = lg.cache
         /\ mortalityRates' = rates
         /\ migrationDist' = dist
         /\ input' = Arrays(population)
         /\ scenarios' = pending.scenarios
         /\ last' = [ called |-> TRUE, result |-> r, inputAfter |-> inputAfter ]
         /\ first' = IF first.called THEN first
                     ELSE [ called |-> TRUE, input |-> Arrays(population),
                            scenarios |-> pending.scenarios, result |-> currentPop ]
         /\ population' = currentPop
         /\ year' = year + 1
         \* in the first iteration currentPop is the object getPopulationByYear
         \* returned: the stored base-year snapshot itself
         /\ storedData' =
              IF pending.loopYear = pending.baseYear + 1
              THEN [storedData EXCEPT ![pending.data] =
                      WithStoredSnapshot(@, pending.baseYear, inputAfter)]
              ELSE storedData
         /\ IF LoopContinues(pending.loopYear + 1, pending.targetYear)
            THEN /\ pending' = [pending EXCEPT !.loopYear = @ + 1, !.steps = steps]
                 /\ UNCHANGED <<projectionCache, cacheOrigin, ret>>
            ELSE /\ pending' = [ active |-> FALSE ]
                 /\ projectionCache' = Put(projectionCache, cacheKey, currentPop)
                 /\ cacheOrigin' = Put(cacheOrigin, cacheKey,
                                       [ origin |-> origin, cleared |-> pending.cleared ])
                 /\ ret' = [ op |-> "projectToYear", seq |-> pending.seq,
                             data |-> pending.data, scenarios |-> pending.scenarios,
                             targetYear |-> pending.targetYear,
                             baseYear |-> pending.baseYear,
                             emptyCache |-> pending.emptyCache,
                             hit |-> FALSE, wrote |-> TRUE, value |-> currentPop,
                             origin |-> origin, beforeClear |-> FALSE,
                             steps |-> steps ]
  /\ UNCHANGED <<source, calls, uiVars>>

\* calculateGlobalMortalityRate(population, scenarios): it awaits
\* loadMortalityRates() (the fetch succeeds or fails), reads the table through
\* getMortalityRates() and returns the rate.
CallCalculateGlobalMortalityRate(pop, sc, ok) ==
  /\ calls < MaxCalls
  /\ calls' = calls + 1
  /\ LET lm == LoadMortalityRates(cachedMortalityRates, source.mortality, ok)
     IN  /\ cachedMortalityRates' = lm.cache
         /\ ret' = [ op |-> "calculateGlobalMortalityRate", population |-> pop,
                     scenarios |-> sc,
                     value |-> CalculateGlobalMortalityRate(pop, sc,
                                 GetMortalityRates(lm.cache)) ]
  /\ UNCHANGED <<stepVars, source, cachedMigrationDistribution, projectionCache,
                 cacheOrigin, pending, first>>
  /\ UNCHANGED <<storedData, uiVars>>

\* applyScenarios(data, scenarios, year)
CallApplyScenarios(dataset, sc, y) ==
  /\ ret' = [ op |-> "applyScenarios", data |-> dataset,
              scenarios |-> sc, year |-> y,
              value |-> ApplyScenarios(storedData[dataset], sc, y) ]
  /\ UNCHANGED <<stepVars, source, cachedMortalityRates, cachedMigrationDistribution,
                 projectionCache, cacheOrigin, pending, first, calls>>
  /\ UNCHANGED <<storedData, uiVars>>

\* A fetch is attempted only while nothing is cached.
FetchOutcomes(cached) == IF IsAbsent(cached) THEN BOOLEAN ELSE {TRUE}

EngineNext ==
  \/ \E ok \in FetchOutcomes(cachedMortalityRates) : CallLoadMortalityRates(ok)
  \/ \E ok \in FetchOutcomes(cachedMigrationDistribution) :
       CallLoadMigrationDistribution(ok)
  \/ CallClearProjectionCache
  \/ \E dataset \in EngineDatasets, sc \in EngineScenarios,
        targetYear \in TargetYears, baseYear \in BaseYears :
       CallProjectToYear(dataset, sc, targetYear, baseYear)
  \/ \E okMortality \in FetchOutcomes(cachedMortalityRates),
        okMigration \in FetchOutcomes(cachedMigrationDistribution) :
       ResumeProjectToYear(okMortality, okMigration)
  \/ \E pop \in RatePopulations, sc \in EngineScenarios,
        ok \in FetchOutcomes(cachedMortalityRates) :
       CallCalculateGlobalMortalityRate(pop, sc, ok)

EngineSpec == EngineInit /\ [][EngineNext]_vars

\* The scenario gateway on its own: applyScenarios reads its arguments only,
\* so its runs are explored apart from the engine's.
GatewayNext ==
  \E dataset \in DatasetNames, sc \in Scenarios, y \in GatewayYears :
    CallApplyScenarios(dataset, sc, y)

GatewaySpec == EngineInit /\ [][GatewayNext]_vars

\* ------------------------------------------------------------------------
\* PopulationPyramid: its state, its effects and their async functions
\* ------------------------------------------------------------------------

\* The scheduling state the effects act on.
Scheduling == [ microtasks |-> microtasks, inflight |-> inflight, fetched |-> fetched ]

\* computePopulation() up to its await: applyScenarios is synchronous and has
\* returned; the continuation that calls setPopulation is queued.
ComputePopulation(st, p) ==
  [st EXCEPT !.microtasks =
     Append(@, [ fn |-> "computePopulation",
                 result |-> ApplyScenarios(storedData[p.data.name], p.scenarios,
                                           p.selectedYear) ])]

\* computeBaselineMortality() up to its first await.
ComputeBaselineMortality(st, p) ==
  LET a == BaselineArguments(p.selectedYear, p.scenarios)
  IN  [st EXCEPT !.microtasks =
         Append(@, [ fn |-> "computeBaselineMortality", at |-> "baselinePop",
                     year |-> a.year, scenarios |-> a.scenarios,
                     baselinePop |-> ApplyScenarios(storedData[p.data.name],
                                                    a.scenarios, a.year) ])]

\* DebugTable's computeDebugData() up to its first await, loadMortalityRates().
ComputeDebugData(st, p) ==
  IF ~p.showDebugTable \/ IsAbsent(p.data) THEN st
  ELSE StartLoad(st, "mortality", cachedMortalityRates,
                 [ fn |-> "computeDebugData", at |-> "mortalityLoaded" ])

\* The scheduling state st becomes the next state's.
Scheduled(st) ==
  /\ microtasks' = st.microtasks
  /\ inflight' = st.inflight
  /\ fetched' = st.fetched

\* usePopulationData resolves: setData, and every effect that depends on
\* data runs.
DataLoaded ==
  /\ IsAbsent(pyramid.data)
  /\ pyramid' = [pyramid EXCEPT !.data = [ name |-> UIDataset ]]
  /\ Scheduled(ComputeBaselineMortality(
                 ComputePopulation(ComputeDebugData(Scheduling, pyramid'), pyramid'),
                 pyramid'))
  /\ UNCHANGED <<stepVars, engineVars, storedData, baselines, events>>

\* A user event is handled once the data is shown and no continuation is
\* left to run.
UserEvent ==
  /\ ~IsAbsent(pyramid.data)
  /\ microtasks = <<>>
  /\ events < MaxEvents
  /\ events' = events + 1

\* The year slider: setSelectedYear, then the effects that depend on
\* selectedYear (computePopulation, computeBaselineMortality).
SelectYear(y) ==
  /\ UserEvent
  /\ y # pyramid.selectedYear
  /\ pyramid' = [pyramid EXCEPT !.selectedYear = y]
  /\ Scheduled(ComputeBaselineMortality(ComputePopulation(Scheduling, pyramid'),
                                        pyramid'))
  /\ UNCHANGED <<stepVars, engineVars, storedData, baselines>>

\* handleScenarioChange / handleReset: setScenarios, then the effects that
\* depend on scenarios (DebugTable's computeDebugData, computePopulation).
ChangeScenario(sc) ==
  /\ UserEvent
  /\ sc # pyramid.scenarios
  /\ pyramid' = [pyramid EXCEPT !.scenarios = sc]
  /\ Scheduled(ComputePopulation(ComputeDebugData(Scheduling, pyramid'), pyramid'))
  /\ UNCHANGED <<stepVars, engineVars, storedData, baselines>>

\* The debug button: setShowDebugTable(!showDebugTable), then DebugTable's
\* effect (it depends on visible).
ToggleDebugTable ==
  /\ UserEvent
  /\ pyramid' = [pyramid EXCEPT !.showDebugTable = ~@]
  /\ Scheduled(ComputeDebugData(Scheduling, pyramid'))
  /\ UNCHANGED <<stepVars, engineVars, storedData, baselines>>

\* The continuation at the head of the queue runs up to its next await.
RunMicrotask ==
  /\ microtasks # <<>>
  /\ LET h  == Head(microtasks)
         st == [Scheduling EXCEPT !.microtasks = Tail(@)]
     IN  CASE h.fn = "computePopulation" ->
                \* setPopulation(result || { male: [], female: [] })
                /\ pyramid' = [pyramid EXCEPT !.population =
                                 IF IsAbsent(h.result)
                                 THEN [ male |-> <<>>, female |-> <<>>, den |-> 1 ]
                                 ELSE h.result]
                /\ Scheduled(st)
                /\ UNCHANGED baselines
           [] h.fn = "computeBaselineMortality" /\ h.at = "baselinePop" ->
                \* the early returns, then calculateGlobalMortalityRate up
                \* to its await of loadMortalityRates()
                /\ IF IsAbsent(h.baselinePop) THEN Scheduled(st)
                   ELSE IF DOMAIN h.baselinePop.male = {} THEN Scheduled(st)
                   ELSE Scheduled(StartLoad(st, "mortality", cachedMortalityRates,
                                            [h EXCEPT !.at = "ratesLoaded"]))
                /\ UNCHANGED <<pyramid, baselines>>
           [] h.fn = "computeBaselineMortality" /\ h.at = "ratesLoaded" ->
                \* getMortalityRates(), the rate, setBaselineMortality
                LET baseline == CalculateGlobalMortalityRate(h.baselinePop, h.scenarios,
                                  GetMortalityRates(cachedMortalityRates))
                IN  /\ pyramid' = [pyramid EXCEPT !.baselineMortality = baseline]
                    /\ baselines' = Append(baselines,
                          [ year |-> h.year, loaded |-> ~IsAbsent(cachedMortalityRates),
                            userScenarios |-> pyramid.scenarios, value |-> baseline ])
                    /\ Scheduled(st)
           [] h.fn = "computeDebugData" /\ h.at = "mortalityLoaded" ->
                \* await loadMigrationDistribution()
                /\ Scheduled(StartLoad(st, "migration", cachedMigrationDistribution,
                                       [h EXCEPT !.at = "migrationLoaded"]))
                /\ UNCHANGED <<pyramid, baselines>>
           [] h.fn = "computeDebugData" /\ h.at = "migrationLoaded" ->
                \* the table of the debug view is built from the getters
                /\ Scheduled(st)
                /\ UNCHANGED <<pyramid, baselines>>
  /\ UNCHANGED <<stepVars, engineVars, storedData, events>>

\* The response to a fetch arrives (or the fetch fails): the loader caches
\* the parsed table on success and nothing on failure, and returns; the
\* function awaiting the loader continues.
FetchCompletes(f, ok) ==
  /\ f \in inflight
  /\ microtasks = <<>>
  /\ inflight' = inflight \ {f}
  /\ microtasks' = Append(microtasks, f.then)
  /\ cachedMortalityRates' =
       IF f.table = "mortality" /\ ok THEN source.mortality ELSE cachedMortalityRates
  /\ cachedMigrationDistribution' =
       IF f.table = "migration" /\ ok THEN source.migration
       ELSE cachedMigrationDistribution
  /\ UNCHANGED <<stepVars, source, projectionCache, cacheOrigin, pending, ret, first,
                 calls, storedData, pyramid, fetched, baselines, events>>

UINext ==
  \/ DataLoaded
  \/ \E y \in UIYears : SelectYear(y)
  \/ \E sc \in UIScenarios : ChangeScenario(sc)
  \/ ToggleDebugTable
  \/ RunMicrotask
  \/ \E f \in inflight, ok \in BOOLEAN : FetchCompletes(f, ok)

UISpec == EngineInit /\ [][UINext]_vars

\* The scenario of the calls in the runs that watch the stored data.
FrameScenario == [ fertility |-> 100, mortality |-> 100, migration |-> -100 ]

\* Any sequence of projectToYear (with its projectOneYear steps),
\* calculateGlobalMortalityRate and applyScenarios calls.
FrameNext ==
  \/ \E targetYear \in TargetYears, baseYear \in BaseYears :
       CallProjectToYear("first", FrameScenario, targetYear, baseYear)
  \/ \E okMortality \in FetchOutcomes(cachedMortalityRates),
        okMigration \in FetchOutcomes(cachedMigrationDistribution) :
       ResumeProjectToYear(okMortality, okMigration)
  \/ \E pop \in RatePopulations, ok \in FetchOutcomes(cachedMortalityRates) :
       CallCalculateGlobalMortalityRate(pop, FrameScenario, ok)
  \/ \E dataset \in DatasetNames, y \in GatewayYears :
       CallApplyScenarios(dataset, FrameScenario, y)

FrameSpec == EngineInit /\ [][FrameNext]_vars

\* ------------------------------------------------------------------------
\* Properties
\* ------------------------------------------------------------------------

Called == last.called

\* A cell of the last call's input holds a whole number.
WholeInput(s, i) == input[s][i] % input.den = 0

\* C1: after any number of consecutive year steps from a non-negative
\* snapshot, under any scenario, every entry of the male and female arrays
\* is >= 0.
C1_NonNegative ==
  \A s \in Sexes, i \in Cohorts : population[s][i] >= 0

\* C1 witness: a second year step under negative net migration has floored a
\* cell whose projected value plus migrants was below zero.
C1_Witness ==
  /\ Called /\ year >= 2 /\ scenarios.migration < -100
  /\ \E s \in Sexes, i \in Cohorts :
       /\ last.result.projected[s][i] + last.result.den * last.result.migration[s][i] < 0
       /\ population[s][i] = 0

\* C2 (as claimed): in the mortality step every cell has a proportion in
\* [0,1] and survivors with 0 <= survivors <= pop, for whole and fractional
\* populations alike.
C2_SurvivorsWithinPop ==
  Called =>
    \A s \in Sexes, i \in Cohorts :
      /\ last.result.mortalityProp[s][i] >= 0
      /\ last.result.mortalityProp[s][i] <= PropScale
      /\ last.result.deathsByAgeGender[s][i]
           = Deaths(input[s][i], input.den, last.result.mortalityProp[s][i])
      /\ last.result.survivors[s][i] >= 0
      /\ last.result.survivors[s][i] <= input[s][i]

FullMortalityThreshold == (1000 * RateScale) \div 1001 + 1

C4_Aging ==
  Called =>
    \A s \in Sexes :
      /\ \A i \in 1..19 :
           last.result.projected[s][i]
             = last.result.survivors[s][i - 1] + 4 * last.result.survivors[s][i]
      /\ last.result.projected[s][20]
           = last.result.survivors[s][19] + 5 * last.result.survivors[s][20]

\* C4 witness: a band in 1..19 with survivors of its own and survivors in
\* the next-younger band, and a terminal band with inflow from band 19.
C4_Witness ==
  /\ Called
  /\ \E s \in Sexes, i \in 1..19 :
       /\ last.result.survivors[s][i - 1] > 0
       /\ last.result.survivors[s][i] > 0
  /\ \E s \in Sexes :
       /\ last.result.survivors[s][19] > 0
       /\ last.result.survivors[s][20] > 0

AllInBand0 == Snapshot(With(ZeroCells, 0, 1000), With(ZeroCells, 0, 1000))

OnlyBand20(snap) ==
  /\ \A s \in Sexes, i \in 0..19 : snap[s][i] = 0
  /\ \E s \in Sexes : snap[s][20] > 0

\* C6 (as claimed): with only band 20 populated (N people) and a 0%
\* mortality scenario, band 20 still equals N after one year step.
C6_TerminalRetained ==
  (Called /\ OnlyBand20(input) /\ scenarios.mortality = 0) =>
    \A s \in Sexes : population[s][20] * input.den = input[s][20] * population.den

\* C6 (amended): with only band 20 populated (N people), band 20 after one
\* year step is N minus the band's deaths plus its migrants, floored at 0:
\* nobody leaves by aging and nothing flows in from band 19.  It equals N
\* when the band's mortality proportion is 0 (mortality% <= -100) and it
\* receives no migrants.
C6_TerminalNoOutflow ==
  (Called /\ OnlyBand20(input)) =>
    \A s \in Sexes :
      /\ population[s][20]
           = MaxZero(5 * (input[s][20]
                          - input.den * last.result.deathsByAgeGender[s][20])
                     + population.den * last.result.migration[s][20])
      /\ (scenarios.mortality <= -100 /\ last.result.migration[s][20] = 0) =>
           population[s][20] * input.den = input[s][20] * population.den

\* C6 witness: a band-20-only snapshot has been projected with a mortality
\* proportion of 0 and no migrants into band 20, and the band kept its N.
C6_Witness ==
  /\ Called /\ OnlyBand20(input) /\ scenarios.mortality <= -100
  /\ \E s \in Sexes :
       /\ input[s][20] > 0
       /\ last.result.migration[s][20] = 0
       /\ population[s][20] * input.den = input[s][20] * population.den

\* The female input population with every band outside 3..9 emptied.
ReproductiveOnly(femalePopulation) ==
  [c \in Cohorts |-> IF c \in 3..9 THEN femalePopulation[c] ELSE 0]

\* The sum over bands 3..9 of femalePop[i] * ASFR[i] for the last call, as
\* <<whole part, remainder over AdjASFRScale>> of a numerator over input.den.
RawBirths ==
  BirthsFromGroups(input.female,
                   ApplyFertilityAdjustment(BaselineFertilityRates, scenarios.fertility), 3)

\* C7 (as claimed): births are exactly the sum over bands 3..9 of
\* femalePop[i] * ASFR[i].
C7_BirthsAreRawSum ==
  Called =>
    /\ RawBirths[2] = 0
    /\ last.result.components.births * input.den = RawBirths[1]

\* C7 (amended): births are Math.round of the sum over bands 3..9 of
\* femalePop[i] * ASFR[i] (input female population, ASFR scaled by
\* 1 + fertility%/100): the whole number nearest to the sum, a tie going up.
\* The value is determined by the input female bands 3..9 and the fertility
\* scenario alone.
C7_BirthsAreRoundedSum ==
  Called =>
    LET births == last.result.components.births
        D      == 2 * (births * input.den - RawBirths[1])
        f      == (2 * RawBirths[2]) \div AdjASFRScale
    IN  /\ D <= input.den + f
        /\ D > f - input.den
        /\ births = CalculateBirthsFromASFR(
                      ReproductiveOnly(input.female), input.den,
                      ApplyFertilityAdjustment(BaselineFertilityRates,
                                               scenarios.fertility))

\* C7 witness: births from a fractional sum, under a mortality scenario that
\* kills some of the mothers, with men and with women outside bands 3..9.
C7_Witness ==
  /\ Called /\ last.result.components.births > 0
  /\ RawBirths[2] > 0
  /\ \E i \in 3..9 : last.result.deathsByAgeGender["female"][i] > 0
  /\ \E i \in Cohorts : input.male[i] > 0
  /\ \E i \in Cohorts \ (3..9) : input.female[i] > 0

\* C8: if the female population is 0 in every band 3..9, births are 0 and
\* both sexes' surviving infants are 0, whatever the fertility scenario.
C8_NoMothersNoBirths ==
  (Called /\ \A i \in 3..9 : input.female[i] = 0) =>
    /\ last.result.components.births = 0
    /\ last.result.components.maleInfantSurvivors = 0
    /\ last.result.components.femaleInfantSurvivors = 0

\* C8 witness: no women in bands 3..9, women in other bands, men in bands
\* 3..9, and a fertility scenario other than 0%.
C8_Witness ==
  /\ Called /\ \A i \in 3..9 : input.female[i] = 0
  /\ \E i \in Cohorts \ (3..9) : input.female[i] > 0
  /\ \E i \in 3..9 : input.male[i] > 0
  /\ scenarios.fertility = 100

\* C9 (as claimed): births are split 49% male / 51% female and each sex's
\* infant mortality proportion is the proportion the same call applies to
\* that sex's band-0 population, for every rate table and mortality%.
C9_InfantMortalityIsBand0 ==
  Called =>
    /\ \A s \in Sexes :
         last.result.infantMortality[s] = last.result.mortalityProp[s][0]
    /\ last.result.components.maleInfantSurvivors
         = MathRound(last.result.components.births * 49,
                     PropScale - last.result.mortalityProp["male"][0], PropScale, 100)
    /\ last.result.components.femaleInfantSurvivors
         = MathRound(last.result.components.births * 51,
                     PropScale - last.result.mortalityProp["female"][0], PropScale, 100)

\* The snapshot of the weighted-rate example: 900 in band 0, 100 in band 20.
WeightedExample == Snapshot(ZeroCells, With(With(ZeroCells, 0, 900), 20, 100))

WeightedExampleRun ==
  /\ Called /\ input = WeightedExample /\ scenarios.mortality = 0
  /\ mortalityRates.female[0] = 1 * RateScale
  /\ mortalityRates.female[20] = 300 * RateScale

\* C10 (as claimed): for 900 in band 0 and 100 in band 20 with base rates 1
\* and 300 per 1000 and a 0% scenario, globalMortalityRate is 30.9.
C10_WeightedRateIs30_9 ==
  WeightedExampleRun =>
    last.result.components.globalMortalityRate = [ whole |-> 30, num |-> 9, den |-> 10 ]

\* The exact identity rate * totalPopulation = deaths * 1000 is evaluated
\* where its products stay below 2^31.
SmallTotals == last.result.components.deaths * input.den <= 2000000

\* C10 (amended): globalMortalityRate is the sum of the per-cell deaths
\* (each Math.round(pop * proportion)) divided by the total input population,
\* times 1000, and 0 for an empty population; never the arithmetic mean of
\* the base rates.  For 900 in band 0 and 100 in band 20 with base rates 1
\* and 300 and a 0% scenario the deaths are 1 + 30 and the rate is 31 (not
\* 30.9, not 150.5).
C10_WeightedRate ==
  Called =>
    LET g      == last.result.components.globalMortalityRate
        deaths == SumCohorts(last.result.deathsByAgeGender["male"])
                  + SumCohorts(last.result.deathsByAgeGender["female"])
        total  == SumCohorts(input.male) + SumCohorts(input.female)
    IN  /\ last.result.components.deaths = deaths
        /\ total = 0 => g = [ whole |-> 0, num |-> 0, den |-> 1 ]
        /\ (total > 0 /\ SmallTotals) =>
             /\ g.den > 0 /\ g.num >= 0 /\ g.num < g.den
             /\ FloorMulDiv(g.num, total, g.den)[2] = 0
             /\ g.whole * total + FloorMulDiv(g.num, total, g.den)[1]
                  = 1000 * input.den * deaths
        /\ WeightedExampleRun =>
             /\ deaths = 31
             /\ g = [ whole |-> 31, num |-> 0, den |-> 1 ]

\* C10 witness: the weighted-rate example has run.
C10_Witness ==
  /\ WeightedExampleRun
  /\ last.result.components.deaths = 31

\* With one and the same table in force, the rate calculateGlobalMortalityRate
\* returns for a snapshot and scenario equals the globalMortalityRate
\* diagnostic of projectOneYear for them.
SameTableSameRate ==
  Called => last.rate = last.result.components.globalMortalityRate

\* C11 (as claimed): for every population snapshot and scenario,
\* calculateGlobalMortalityRate returns the same number as the
\* globalMortalityRate diagnostic of projectOneYear on that snapshot and
\* scenario (same per-cell rates, 8.0 default, clamp, rounding of deaths).
C11_SameGlobalRate ==
  (/\ ret.op = "calculateGlobalMortalityRate"
   /\ last.called
   /\ ret.population = input /\ ret.scenarios = scenarios)
    => ret.value = last.result.components.globalMortalityRate

\* The sum of the 42 shares of a distribution, as <<numerator, denominator>>
\* in lowest terms.
RECURSIVE ShareSumFrom(_, _)
ShareSumFrom(shares, i) ==
  IF i > 20 THEN <<0, 1>>
  ELSE LET rest == ShareSumFrom(shares, i + 1)
           n == shares[i][1] * rest[2] + rest[1] * shares[i][2]
           d == shares[i][2] * rest[2]
           g == GCD(Abs(n), d)
       IN  IF n = 0 THEN <<0, 1>> ELSE <<n \div g, d \div g>>

ShareSum(dist) ==
  LET m == ShareSumFrom(dist.male, 0)
      f == ShareSumFrom(dist.female, 0)
      n == m[1] * f[2] + f[1] * m[2]
      d == m[2] * f[2]
      g == GCD(Abs(n), d)
  IN  IF n = 0 THEN <<0, 1>> ELSE <<n \div g, d \div g>>

SharesSumToOne(dist) == ShareSum(dist) = <<1, 1>>

\* The sum of the 42 migrant counts of the last year step.
TotalMigrants ==
  SumCohorts(last.result.migration["male"]) + SumCohorts(last.result.migration["female"])

\* m is x rounded to the nearest whole number, ties upwards, for x = a * n / d
\* with d > 0:  m - 1/2 <= x < m + 1/2.
IsRounded(m, a, n, d) ==
  /\ 2 * m * d - d <= 2 * a * n
  /\ 2 * a * n < 2 * m * d + d

\* C12: adjustedNetMigration = round(400000 * (1 + migration%/100)), each
\* cell's migrants = round(adjustedNetMigration * share), and whenever the
\* 42 shares sum to 1 the migrant counts sum to adjustedNetMigration up to
\* accumulated rounding, at most 21 in absolute value.
C12_MigrationDrift ==
  Called =>
    LET adj == last.result.components.adjustedNetMigration
    IN  /\ IsRounded(adj, 4000, 100 + scenarios.migration, 1)
        /\ \A s \in Sexes, i \in Cohorts :
             IsRounded(last.result.migration[s][i], adj,
                       migrationDist[s][i][1], migrationDist[s][i][2])
        /\ SharesSumToOne(migrationDist) => Abs(TotalMigrants - adj) <= 21

\* C12 witness: shares that sum to 1, a net migration that is not 0, and
\* migrant counts whose sum has drifted from adjustedNetMigration.
C12_Witness ==
  /\ Called /\ SharesSumToOne(migrationDist)
  /\ last.result.components.adjustedNetMigration # 0
  /\ TotalMigrants # last.result.components.adjustedNetMigration
  /\ Abs(TotalMigrants - last.result.components.adjustedNetMigration) <= 21

\* C13 (as claimed): every distribution the loaders hand to a projection
\* step, loaded from source data or the fallback, has its 42 shares summing
\* to 1.
C13_SharesSumToOne == SharesSumToOne(migrationDist)

\* The proportion the default rate 8.0 per 1000 yields under a multiplier.
DefaultProp(multiplier) == AdjustedMortalityProp(DefaultRate, multiplier)

\* C20 (as claimed): a cohort/sex whose table entry is missing is processed
\* with the default rate 8.0 per 1000 wherever projectOneYear and
\* calculateGlobalMortalityRate use its rate: in the mortality step, in the
\* infant-survival step (band 0) and in the standalone rate.
C20_MissingEntryUsesDefault ==
  Called =>
    LET mult == last.result.components.adjustedMortalityMultiplier
        filled == [s \in Sexes |-> [i \in Cohorts |->
                     IF mortalityRates[s][i] = 0 THEN DefaultRate
                     ELSE mortalityRates[s][i]]]
    IN  /\ \A s \in Sexes, i \in Cohorts :
             mortalityRates[s][i] = 0 =>
               /\ last.result.mortalityProp[s][i] = DefaultProp(mult)
               /\ i = 0 => last.result.infantMortality[s] = DefaultProp(mult)
        /\ CalculateGlobalMortalityRate(input, scenarios, mortalityRates)
             = CalculateGlobalMortalityRate(input, scenarios, filled)

\* C14 (as claimed): two projectOneYear calls with identical population and
\* scenario return identical male and female arrays and identical
\* diagnostics, whatever loads, projections and cache clears happen before
\* or between them.
C14_SameInputsSameOutputs ==
  (first.called /\ last.called /\ first.input = input /\ first.scenarios = scenarios)
    => first.result = Returned(last.result)

\* projectOneYear applied along the recorded year steps k..Len(steps), each
\* with the tables its getters returned.
RECURSIVE ApplySteps(_, _, _, _)
ApplySteps(pop, sc, steps, k) ==
  IF k > Len(steps) THEN pop
  ELSE ApplySteps(
         Returned(ProjectOneYear(pop, sc,
           IF steps[k].ratesLoaded THEN source.mortality ELSE DefaultRates,
           IF steps[k].distLoaded THEN source.migration ELSE UniformDistribution)),
         sc, steps, k + 1)

\* The last engine call was a projectToYear call whose base year has a
\* stored snapshot.
ProjectedFromBase ==
  /\ ret.op = "projectToYear"
  /\ ~IsAbsent(GetPopulationByYear(Datasets[ret.data], ret.baseYear))

\* C15: with an empty cache, projectToYear returns the result of applying
\* projectOneYear exactly targetYear - baseYear times to the base-year
\* snapshot, each step receiving the previous step's result and the same
\* scenario; when targetYear <= baseYear it performs no step and returns the
\* base-year snapshot unchanged.
C15_ProjectToYearIterates ==
  (ProjectedFromBase /\ ret.emptyCache) =>
    LET base == GetPopulationByYear(Datasets[ret.data], ret.baseYear)
        n == IF ret.targetYear > ret.baseYear THEN ret.targetYear - ret.baseYear ELSE 0
    IN  /\ Len(ret.steps) = n
        /\ ret.value = ApplySteps(base, ret.scenarios, ret.steps, 1)
        /\ n = 0 => ret.value = base

\* C15 witness: a projectToYear call on an empty cache has run two or more
\* year steps and returned something other than the base snapshot.
C15_Witness ==
  /\ ProjectedFromBase /\ ret.emptyCache
  /\ Len(ret.steps) >= 2
  /\ ret.targetYear - ret.baseYear = Len(ret.steps)
  /\ Arrays(ret.value) # GetPopulationByYear(Datasets[ret.data], ret.baseYear)

\* C16 (as claimed): every projectToYear call returns a value computed from
\* its own data and baseYear; a result memoized for an earlier call is never
\* returned for a call whose base data or baseYear differ.
C16_CacheTransparent ==
  ret.op = "projectToYear" =>
    ret.origin = [ data |-> ret.data, baseYear |-> ret.baseYear ]

\* C17 (as claimed): whenever no snapshot exists for baseYear, projectToYear
\* returns null and leaves the projection cache unchanged, whatever calls
\* were made earlier.
C17_MissingBaseReturnsNull ==
  (/\ ret.op = "projectToYear"
   /\ IsAbsent(GetPopulationByYear(Datasets[ret.data], ret.baseYear)))
    => (ret.value = Null /\ ~ret.wrote)

\* The last call was applyScenarios for an observed year (year <=
\* lastObservedYear) or for a later year.
GatewayObserved ==
  ret.op = "applyScenarios" /\ ret.year <= Datasets[ret.data].lastObservedYear
GatewayProjected ==
  ret.op = "applyScenarios" /\ ret.year > Datasets[ret.data].lastObservedYear

\* C18: for every year <= lastObservedYear, applyScenarios returns the stored
\* observed snapshot for that year unmodified, and the result is the same
\* for every scenario value.
C18_ObservedUnmodified ==
  GatewayObserved =>
    LET data == Datasets[ret.data]
        stored == IF ret.year \in DOMAIN data.observed
                  THEN data.observed[ret.year] ELSE Undefined
    IN  /\ ret.value = stored
        /\ \A sc \in Scenarios : ApplyScenarios(data, sc, ret.year) = ret.value

\* C18 witness: applyScenarios was called for the last observed year with a
\* scenario that changes fertility, mortality and migration, on a snapshot
\* with people in band 0, and returned the stored snapshot.
C18_Witness ==
  /\ GatewayObserved
  /\ ret.year = Datasets[ret.data].lastObservedYear
  /\ ret.scenarios.fertility # 0 /\ ret.scenarios.mortality # 0
  /\ ret.scenarios.migration # 0
  /\ ret.value = Datasets[ret.data].observed[ret.year]
  /\ ret.value.female[0] + ret.value.female[20] > 0

\* The tables the getters can hand to n consecutive year steps.
StepTables(n) == [ 1..n -> [ ratesLoaded : BOOLEAN, distLoaded : BOOLEAN ] ]

\* C19 (as claimed): for every year > lastObservedYear, applyScenarios
\* returns the snapshot that projectToYear(data, scenario, year,
\* lastObservedYear) computes from the last observed snapshot.
C19_ProjectedDelegates ==
  GatewayProjected =>
    LET data == Datasets[ret.data]
        base == GetPopulationByYear(data, data.lastObservedYear)
    IN  \E steps \in StepTables(ret.year - data.lastObservedYear) :
          Arrays(ret.value) = Arrays(ApplySteps(base, ret.scenarios, steps, 1))

\* The baseline TFR the fertility module documents (1.25) and the TFR it
\* documents for +10% (1.375), in units of 1 / AdjASFRScale.
DocumentedBaselineTFR == (125 * AdjASFRScale) \div 100
DocumentedTFRPlus10 == (1375 * AdjASFRScale) \div 1000

\* C22 (as claimed): the adjustedTFR diagnostic is 5 times the sum of the
\* scenario-adjusted ASFRs, which is the baseline TFR times
\* (1 + fertility%/100); at fertility 0% it is 1.25 and at +10% it is 1.375.
C22_AdjustedTFR ==
  Called =>
    LET tfr   == last.result.components.adjustedTFR
        asfrs == ApplyFertilityAdjustment(BaselineFertilityRates, scenarios.fertility)
    IN  /\ tfr = 5 * SumCohorts(asfrs)
        /\ tfr = CalculateTFRFromASFR(BaselineFertilityRates) * (100 + scenarios.fertility)
        /\ scenarios.fertility = 0 => tfr = DocumentedBaselineTFR
        /\ scenarios.fertility = 10 => tfr = DocumentedTFRPlus10

\* The total of a snapshot's 42 entries (a numerator over its den).
Total(pop) == SumCohorts(pop.male) + SumCohorts(pop.female)

\* No cell of the last year step was floored at zero.
NoCellFloored ==
  \A s \in Sexes, i \in Cohorts :
    last.result.projected[s][i] + last.result.den * last.result.migration[s][i] >= 0

\* C24: for one projectOneYear step in which no cell is floored at zero,
\* total(result) - total(input) = surviving infants (male + female) - total
\* deaths + the sum of the 42 migrant counts; the aging step by itself
\* neither creates nor removes people (the aged cells of a sex, without its
\* surviving infants, total its survivors).
C24_ComponentAccounting ==
  (Called /\ NoCellFloored) =>
    LET r    == last.result
        den5 == r.den
        infants == r.components.maleInfantSurvivors + r.components.femaleInfantSurvivors
    IN  /\ Total(r) - COHORT_WIDTH * Total(input)
             = den5 * (infants - r.components.deaths + TotalMigrants)
        /\ SumCohorts(r.projected["male"]) - den5 * r.components.maleInfantSurvivors
             = COHORT_WIDTH * SumCohorts(r.survivors["male"])
        /\ SumCohorts(r.projected["female"]) - den5 * r.components.femaleInfantSurvivors
             = COHORT_WIDTH * SumCohorts(r.survivors["female"])

\* C24 witness: a step without a floored cell that had births, deaths,
\* migrants, survivors in the terminal band, and changed the total.
C24_Witness ==
  /\ Called /\ NoCellFloored
  /\ last.result.components.births > 0
  /\ last.result.components.deaths > 0
  /\ TotalMigrants # 0
  /\ \E s \in Sexes : last.result.survivors[s][20] > 0
  /\ Total(last.result) # COHORT_WIDTH * Total(input)

\* C28 (as claimed): every entry of the snapshot projectOneYear returns is a
\* whole number when every entry of its input is a whole number.
C28_WholeNumbers ==
  (Called /\ \A s \in Sexes, i \in Cohorts : WholeInput(s, i)) =>
    \A s \in Sexes, i \in Cohorts : last.result[s][i] % last.result.den = 0

\* C30 (as claimed): for every non-negative input population and every
\* scenario, fertility% below -100 included, the births, maleInfantSurvivors
\* and femaleInfantSurvivors diagnostics are >= 0.
C30_BirthsNonNegative ==
  (Called /\ \A s \in Sexes, i \in Cohorts : input[s][i] >= 0) =>
    /\ last.result.components.births >= 0
    /\ last.result.components.maleInfantSurvivors >= 0
    /\ last.result.components.femaleInfantSurvivors >= 0

\* C29 (as claimed): every year step of a single projectToYear run uses the
\* same mortality-rate table and the same migration distribution, even when
\* a table load fails, or completes, while the run is in progress.
C29_SameTablesThroughRun ==
  ret.op = "projectToYear" =>
    \A j, k \in 1..Len(ret.steps) : ret.steps[j] = ret.steps[k]

\* C23 (as claimed): clearProjectionCache empties the cache as a whole; after
\* it no previously stored entry is ever returned, and the next projectToYear
\* call for any (targetYear, scenario) recomputes from the base-year
\* snapshot: a cache hit never returns the result of a call that was invoked
\* before the latest clearProjectionCache.
C23_ClearInvalidates ==
  (ret.op = "projectToYear" /\ ret.hit) => ~ret.beforeClear

\* After clearProjectionCache the cache holds no entry, and a projectToYear
\* call that finds the cache empty is not served from it.
ClearEmptiesCache ==
  /\ [][projectionCache' # projectionCache =>
          (projectionCache' = <<>>
           \/ DOMAIN projectionCache \subseteq DOMAIN projectionCache')]_vars
  /\ [](ret.op = "projectToYear" /\ ret.emptyCache => ~ret.hit)

\* C25: projectOneYear, projectToYear, calculateGlobalMortalityRate and
\* applyScenarios never modify the snapshot they are given or the observed
\* data: after any sequence of these calls every stored snapshot has the
\* values it had at load time, no computed snapshot has been written into the
\* observed data, and the snapshot a year step was given is as it was.
C25_StoredDataUntouched ==
  /\ storedData = Datasets
  /\ \A d \in DatasetNames :
       DOMAIN storedData[d].observed = DOMAIN Datasets[d].observed
  /\ last.called => last.inputAfter = input

\* C25 witness: a projectToYear run has taken two year steps from a stored
\* base-year snapshot and cached its result, and afterwards applyScenarios
\* has returned a projected year's snapshot changed by the scenario.
C25_Witness ==
  /\ last.called /\ year >= 2
  /\ DOMAIN projectionCache # {}
  /\ ret.op = "applyScenarios"
  /\ ret.year > Datasets[ret.data].lastObservedYear
  /\ ret.year \in DOMAIN Datasets[ret.data].projected
  /\ ret.value # Datasets[ret.data].projected[ret.year]


\* The figure the baseline computation yields for a selected year, when the
\* user's settings are userScenarios and the mortality table is the loaded
\* one or (after a failed load) the default one.
BaselineFigure(y, userScenarios, loaded) ==
  LET a == BaselineArguments(y, userScenarios)
  IN  CalculateGlobalMortalityRate(
        ApplyScenarios(storedData[UIDataset], a.scenarios, a.year), a.scenarios,
        IF loaded THEN source.mortality ELSE DefaultRates)

\* C21: the baseline mortality figure of a selected year is the same for
\* every value of the user's settings: any two figures the component has
\* set for the same year from the same mortality table are equal, whatever
\* the settings were at the time, and the figure on display is the one the
\* computation gives for its year under every setting of the controls.
C21_BaselineIndependentOfScenarios ==
  /\ \A i, j \in DOMAIN baselines :
       (baselines[i].year = baselines[j].year /\ baselines[i].loaded = baselines[j].loaded)
         => baselines[i].value = baselines[j].value
  /\ baselines # <<>> =>
       /\ pyramid.baselineMortality = baselines[Len(baselines)].value
       /\ \A sc \in UIScenarios :
            pyramid.baselineMortality =
              BaselineFigure(baselines[Len(baselines)].year, sc,
                             baselines[Len(baselines)].loaded)

\* Two baseline figures for the same year from the same table, set under
\* different user settings, the second one not neutral.
C21_Witness ==
  \E i, j \in DOMAIN baselines :
    /\ i < j
    /\ baselines[i].year = baselines[j].year
    /\ baselines[i].loaded = baselines[j].loaded
    /\ baselines[i].userScenarios # baselines[j].userScenarios
    /\ baselines[j].userScenarios # NeutralScenario

\* C26: the source of each rate table is fetched at most one time.
C26_FetchedAtMostOnce ==
  /\ fetched.mortality <= 1
  /\ fetched.migration <= 1

\* No computation of the component is pending.
Quiescent ==
  /\ ~IsAbsent(pyramid.data)
  /\ microtasks = <<>>
  /\ inflight = {}

\* C27: once all pending computations have finished, the displayed
\* population and baseline mortality are those of the latest selection.
C27_LatestSelectionDisplayed ==
  Quiescent =>
    /\ pyramid.population =
         ApplyScenarios(storedData[pyramid.data.name], pyramid.scenarios,
                        pyramid.selectedYear)
    /\ baselines # <<>>
    /\ baselines[Len(baselines)].year = pyramid.selectedYear

\* The population part of the above: the displayed population is that of
\* the latest selection whenever nothing is pending.
LatestPopulationDisplayed ==
  Quiescent =>
    pyramid.population =
      ApplyScenarios(storedData[pyramid.data.name], pyramid.scenarios,
                     pyramid.selectedYear)

============================================================================
